---- MODULE Spec2Model ----
(***************************************************************************)
(* A model of stfinv/utils/plotting.py: plot_waveforms, plot_map,          *)
(* add_ortho and _dict_mean.                                               *)
(*                                                                         *)
(* The interpreter is Python 3: "/" is true division (the source wraps the *)
(* one quotient it needs as an integer in np.int, line 56).  Quotients are *)
(* kept exact, as reduced fractions [num, den]; den = 0 stands for the     *)
(* IEEE results of a division by zero (num = 0 nan, 1 inf, -1 -inf).       *)
(* A Python exception is the name of its class in "outcome".               *)
(***************************************************************************)
EXTENDS Integers, Sequences, FiniteSets, TLC

\* ---------------------------------------------------------------- bounds
MaxTraces == 4
MaxCalls == 2
MaxLen == 3
MaxDict == 3
MaxStations == 3

\* ------------------------------------------------------------ arithmetic
Abs(a) == IF a < 0 THEN -a ELSE a

Sign(a) == IF a < 0 THEN -1 ELSE IF a > 0 THEN 1 ELSE 0

Min(a, b) == IF a < b THEN a ELSE b

RECURSIVE Gcd(_, _)
Gcd(a, b) == IF b = 0 THEN a ELSE Gcd(b, a % b)

\* a / b of Python 3 and numpy floats
TrueDiv(a, b) ==
    IF b = 0 THEN [num |-> Sign(a), den |-> 0]
    ELSE LET g == Gcd(Abs(a), Abs(b))
         IN  [num |-> (Sign(b) * a) \div g, den |-> Abs(b) \div g]

MulInt(q, k) == TrueDiv(q.num * k, q.den)

AddInt(q, k) == [num |-> q.num + k * q.den, den |-> q.den]

\* int(x) for x >= 0
IntOf(q) == q.num \div q.den

\* int(np.sqrt(n))
IntSqrt(n) == CHOOSE r \in 0..n : r * r <= n /\ (r + 1) * (r + 1) > n

RECURSIVE SumSeq(_)
SumSeq(s) == IF s = <<>> THEN 0 ELSE Head(s) + SumSeq(Tail(s))

RECURSIVE MaxSeq(_)
MaxSeq(s) == IF Len(s) = 1 THEN s[1]
             ELSE LET m == MaxSeq(Tail(s)) IN IF s[1] > m THEN s[1] ELSE m

\* ------------------------------------------------------------ grid sizing
Nrows(nplots) == IntSqrt(nplots) + 1

NcolsCeil(nplots, nrows) ==
    [num |-> (nplots + nrows - 1) \div nrows + 1, den |-> 1]

Ncols(nplots, nrows) == AddInt(TrueDiv(nplots, nrows), 1)

Irow(iplot, nrows) == iplot % nrows

Icol(iplot, nrows) == IntOf(TrueDiv(iplot, nrows))

\* ------------------------------------------------------------ line style
LineStyleAtOrAbove(cc, CClim) == IF cc >= CClim THEN "-" ELSE "dotted"

LineStyle(cc, CClim) == IF cc > CClim THEN "-" ELSE "dotted"

\* '%s.%s' % (tr.stats.station, tr.stats.location)
Code(tr) == tr.station \o "." \o tr.location

\* ------------------------------------------------------------ curves
Normfac(data) == MaxSeq([k \in 1..Len(data) |-> Abs(data[k])])

Scaled(vals, normfac) == [k \in 1..Len(vals) |-> TrueDiv(vals[k], normfac)]

\* np.convolve(a, v, mode='full'): Len(a) + Len(v) - 1 samples
ConvolveSame(a, v) ==
    [k \in 1..Len(a) |->
        SumSeq([j \in 1..Len(a) |->
                   IF k - j + 1 >= 1 /\ k - j + 1 <= Len(v)
                   THEN a[j] * v[k - j + 1] ELSE 0])]

Convolve(a, v) ==
    [k \in 1..(Len(a) + Len(v) - 1) |->
        SumSeq([j \in 1..Len(a) |->
                   IF k - j + 1 >= 1 /\ k - j + 1 <= Len(v)
                   THEN a[j] * v[k - j + 1] ELSE 0])]

\* s[0:n]
Slice(s, n) == [k \in 1..Min(n, Len(s)) |-> s[k]]

Synthetic(green, stf, npts, normfac) ==
    Scaled(Slice(Convolve(green, stf), npts), normfac)

\* Lines 58 and 88-89: max() of an empty trace and np.convolve of an empty
\* array raise ValueError
SynthCurve(data, green, stf) ==
    IF data = <<>> \/ green = <<>> \/ stf = <<>>
    THEN [outcome |-> "ValueError", yvals |-> <<>>]
    ELSE [outcome |-> "ok",
          yvals |-> Synthetic(green, stf, Len(data), Normfac(data))]

\* ------------------------------------------------------------ mappings
\* A Python dict: its items, <<key, value>>, in insertion order
HasKey(d, key) == \E k \in 1..Len(d) : d[k][1] = key

Get(d, key) == d[CHOOSE k \in 1..Len(d) : d[k][1] = key][2]

Values(d) == [k \in 1..Len(d) |-> d[k][2]]

\* Lines 275-282. np.mean of the empty array is nan (a RuntimeWarning, no
\* exception): TrueDiv(0, 0)
DictMean(dictionary) ==
    LET x == Values(dictionary)
    IN  [outcome |-> "ok", value |-> TrueDiv(SumSeq(x), Len(x))]

\* ------------------------------------------------------------ map
\* obspy's locations2degrees, for points on the equator or at a pole
Locations2Degrees(lat1, lon1, lat2, lon2) ==
    IF lat1 = 0 /\ lat2 = 0
    THEN LET d == Abs(lon1 - lon2) % 360 IN Min(d, 360 - d)
    ELSE Abs(lat1 - lat2)

InGroupAOrAt(color, CClim) == color >= CClim

InGroupA(color, CClim) == color > CClim

\* zip(lons, lats, colors)
Zip3(lons, lats, colors) ==
    [k \in 1..Min(Len(lons), Min(Len(lats), Len(colors))) |->
        [lon |-> lons[k], lat |-> lats[k], color |-> colors[k]]]

Mark1(lons, lats, colors, CClim) ==
    SelectSeq(Zip3(lons, lats, colors), LAMBDA t : InGroupA(t.color, CClim))

Mark2(lons, lats, colors, CClim) ==
    SelectSeq(Zip3(lons, lats, colors), LAMBDA t : ~InGroupA(t.color, CClim))

Layer(step, explicit, zorder) ==
    [step |-> step, explicit |-> explicit, zorder |-> zorder]

Backdrop ==
    <<Layer("stock_img", FALSE, 0), Layer("coastlines", FALSE, 0),
      Layer("gridlines", FALSE, 0)>>

\* the labels drawn: zip(lats, lons, text), those nearer than 90 degrees
TextLayers(lats, lons, text, clon, clat) ==
    LET n == Min(Len(lats), Min(Len(lons), Len(text)))
        shown == SelectSeq([k \in 1..n |-> k],
                     LAMBDA k : Locations2Degrees(lats[k], lons[k], clat, clon) < 90)
    IN  [k \in 1..Len(shown) |-> Layer("text", TRUE, 100)]

MarkersColorbarFirst(m1, m2) ==
    <<Layer("colorbar", FALSE, 0)>>
    \o (IF Len(m1) > 0 THEN <<Layer("scatter_A", TRUE, 10)>> ELSE <<>>)
    \o (IF Len(m2) > 0 THEN <<Layer("scatter_B", TRUE, 10)>> ELSE <<>>)

MarkersAndColorbar(m1, m2) ==
    (IF Len(m1) > 0 THEN <<Layer("scatter_A", TRUE, 10)>> ELSE <<>>)
    \o (IF Len(m2) > 0 THEN <<Layer("scatter_B", TRUE, 10)>> ELSE <<>>)
    \o <<Layer("colorbar", FALSE, 0)>>

\* text is <<>> for None (and for an empty list, as falsy)
AddOrtho(lats, lons, colors, CClim, clon, clat, text) ==
    LET m1 == Mark1(lons, lats, colors, CClim)
        m2 == Mark2(lons, lats, colors, CClim)
        marks == [lats_mark1 |-> [k \in 1..Len(m1) |-> m1[k].lat],
                  lons_mark1 |-> [k \in 1..Len(m1) |-> m1[k].lon],
                  colors_mark1 |-> [k \in 1..Len(m1) |-> m1[k].color],
                  lats_mark2 |-> [k \in 1..Len(m2) |-> m2[k].lat],
                  lons_mark2 |-> [k \in 1..Len(m2) |-> m2[k].lon],
                  colors_mark2 |-> [k \in 1..Len(m2) |-> m2[k].color]]
    IN  IF Len(m1) = 0 /\ Len(m2) = 0
        THEN [outcome |-> "UnboundLocalError", marks |-> marks,
              drawn |-> Backdrop]
        ELSE [outcome |-> "ok", marks |-> marks,
              drawn |-> Backdrop \o MarkersAndColorbar(m1, m2)
                        \o <<Layer("star", FALSE, 0)>>
                        \o (IF text # <<>>
                            THEN TextLayers(lats, lons, text, clon, clat)
                            ELSE <<>>)]

NoMarks ==
    [lats_mark1 |-> <<>>, lons_mark1 |-> <<>>, colors_mark1 |-> <<>>,
     lats_mark2 |-> <<>>, lons_mark2 |-> <<>>, colors_mark2 |-> <<>>]

NoMap == [outcome |-> "none", marks |-> NoMarks, drawn |-> <<>>]

\* values[code] raises KeyError at the first trace without an entry
PlotMap(st_synth, values, clon, clat, CClim) ==
    IF \E k \in 1..Len(st_synth) : ~HasKey(values, Code(st_synth[k]))
    THEN [outcome |-> "KeyError", marks |-> NoMarks, drawn |-> <<>>]
    ELSE AddOrtho([k \in 1..Len(st_synth) |-> st_synth[k].stla],
                  [k \in 1..Len(st_synth) |-> st_synth[k].stlo],
                  [k \in 1..Len(st_synth) |-> Get(values, Code(st_synth[k]))],
                  CClim, clon, clat, <<>>)

\* ------------------------------------------------------------ state
VARIABLES
    pc,            \* plot_waveforms: "idle" (not running), "loop" (line 53),
                   \* "done" (returned or raised; the caller has the outcome)
    call,          \* the arguments of the running or last plot_waveforms call
    fig,           \* the figure of that call (0: none created)
    nplots, nrows, ncols, iplot, st_data_plot,
    lines,         \* the curves drawn on ax, in drawing order
    title,         \* whether ax.set_title was called
    stf_xoffset,   \* the x shift of the STF inset
    map,           \* what plot_map returned to plot_waveforms
    outcome,       \* "running", "ok" or the exception that ended the call
    errkey,        \* the key a KeyError carries ("" otherwise)
    dirExists,     \* os.path.exists(outdir)
    files,         \* the files in outdir
    openFigs,      \* pyplot's registry of open figures
    nfigs,         \* figures created so far
    ncalls,        \* plot_waveforms calls so far
    dictionary, mean,      \* _dict_mean: its argument and its result
    traces, synth,         \* the synthetic curve: its inputs and its result
    ortho_args, ortho      \* add_ortho called on its own: arguments, result

wf_vars == <<pc, call, fig, nplots, nrows, ncols, iplot, st_data_plot, lines,
             title, stf_xoffset, map, outcome, errkey, dirExists, files, openFigs, nfigs,
             ncalls>>

mean_vars == <<dictionary, mean>>

synth_vars == <<traces, synth>>

ortho_vars == <<ortho_args, ortho>>

vars == <<wf_vars, mean_vars, synth_vars, ortho_vars>>

\* ------------------------------------------------------------ inputs
CClimValues == {1}

CCValues == {1, 2}

Iterations == {-1, 0}

Metrics == {"CC", "dA", "dT", "arr_times", "st_synth"}

StationName(i) == "ST" \o ToString(i)

\* azimuths that are not in the order of the stream
Azi(i) == ((i * 3) % 5) * 72

DataTrace(i) ==
    [station |-> StationName(i), location |-> "00", azi |-> Azi(i),
     data |-> <<i, -(i + 1), 1>>, npts |-> 3, delta |-> 1]

SynthTrace(i) ==
    [station |-> StationName(i), location |-> "00", data |-> <<1, i>>,
     stla |-> 0, stlo |-> 90 * (i % 4)]

\* the entries of the stations 1..n, without station `without` (0: all)
MetricDict(n, without, vals) ==
    LET present == SelectSeq([k \in 1..n |-> k], LAMBDA k : k # without)
    IN  [k \in 1..Len(present) |->
            <<Code(DataTrace(present[k])), vals[present[k]]>>]

Without(miss, metric) == IF miss[1] = metric THEN miss[2] ELSE 0

Arguments(n, cc, CClim, miss, iteration, writable) ==
    [st_data |-> [k \in 1..n |-> DataTrace(k)],
     st_synth |-> LET present == SelectSeq([k \in 1..n |-> k],
                                     LAMBDA k : k # Without(miss, "st_synth"))
                  IN  [k \in 1..Len(present) |-> SynthTrace(present[k])],
     arr_times |-> MetricDict(n, Without(miss, "arr_times"), [k \in 1..n |-> 1]),
     CC |-> MetricDict(n, Without(miss, "CC"), cc),
     CClim |-> CClim,
     dA |-> MetricDict(n, Without(miss, "dA"), [k \in 1..n |-> 1]),
     dT |-> MetricDict(n, Without(miss, "dT"), [k \in 1..n |-> k]),
     stf |-> <<1, 1>>,
     iteration |-> iteration,
     writable |-> writable]

NoCall == Arguments(0, <<>>, 1, <<"none", 0>>, -1, TRUE)

\* ------------------------------------------------------------ plot_waveforms
\* Stream.sort(keys=['azi']): a stable sort, ascending
RECURSIVE InsertByAzi(_, _)
InsertByAzi(sorted, tr) ==
    IF sorted = <<>> THEN <<tr>>
    ELSE IF sorted[Len(sorted)].azi <= tr.azi THEN Append(sorted, tr)
    ELSE Append(InsertByAzi(SubSeq(sorted, 1, Len(sorted) - 1), tr),
                sorted[Len(sorted)])

RECURSIVE SortByAzi(_)
SortByAzi(st) ==
    IF st = <<>> THEN <<>>
    ELSE InsertByAzi(SortByAzi(SubSeq(st, 1, Len(st) - 1)), st[Len(st)])

\* st_synth.select(station=...)
Select(st_synth, station) ==
    SelectSeq(st_synth, LAMBDA t : t.station = station)

\* The first statement of the loop body that raises for trace tr:
\* 1 CC[code] (line 64), 2 select(...)[0] (line 79), 3 np.convolve (line 88),
\* 4 dA[code] (line 100), 5 dT[code] (line 101), 6 arr_times[code] (line 105);
\* 0 when none does.
Raises(tr, c) ==
    IF ~HasKey(c.CC, Code(tr)) THEN 1
    ELSE IF Select(c.st_synth, tr.station) = <<>> THEN 2
    ELSE IF Select(c.st_synth, tr.station)[1].data = <<>> \/ c.stf = <<>> THEN 3
    ELSE IF ~HasKey(c.dA, Code(tr)) THEN 4
    ELSE IF ~HasKey(c.dT, Code(tr)) THEN 5
    ELSE IF ~HasKey(c.arr_times, Code(tr)) THEN 6
    ELSE 0

Exception(stage) ==
    IF stage \in {1, 4, 5, 6} THEN "KeyError"
    ELSE IF stage = 2 THEN "IndexError"
    ELSE "ValueError"

Line(tr, role, ls, irow, icol, yvals) ==
    [code |-> Code(tr), role |-> role, ls |-> ls, xoffset |-> icol,
     yoffset |-> TrueDiv(irow * 3, 2), yvals |-> yvals]

\* The curves the loop body draws for tr before the statement `stage` raises
BodyLines(tr, c, irow, icol, stage) ==
    LET normfac == Normfac(tr.data)
        ls == LineStyle(Get(c.CC, Code(tr)), c.CClim)
        green == Select(c.st_synth, tr.station)[1].data
    IN  IF stage = 1 THEN <<>>
        ELSE <<Line(tr, "data", ls, irow, icol, Scaled(tr.data, normfac))>>
             \o (IF stage = 2 THEN <<>>
                 ELSE <<Line(tr, "green", ls, irow, icol, Scaled(green, normfac))>>
                      \o (IF stage = 3 THEN <<>>
                          ELSE <<Line(tr, "synth", ls, irow, icol,
                                      Synthetic(green, c.stf, tr.npts, normfac))>>))

\* os.path.join(outdir, 'waveforms_it_%d.png' % iteration)
Outfile(iteration) == "./waveforms/waveforms_it_" \o ToString(iteration) \o ".png"

\* fig.savefig(outfile): the files of outdir afterwards
SavedAlways(fs, c) == fs \cup {Outfile(c.iteration)}

Saved(fs, c) == IF c.writable THEN fs \cup {Outfile(c.iteration)} ELSE fs

\* Lines 28-52: the directory, the figure, the grid, the sorted stream
Call(c) ==
    /\ ncalls' = ncalls + 1
    /\ call' = c
    /\ lines' = <<>>
    /\ title' = FALSE
    /\ stf_xoffset' = TrueDiv(0, 1)
    /\ map' = NoMap
    /\ errkey' = ""
    /\ iplot' = 0
    /\ files' = files
    /\ IF ~dirExists /\ ~c.writable
       THEN \* os.mkdir raises
            /\ outcome' = "OSError"
            /\ pc' = "done"
            /\ UNCHANGED <<dirExists, fig, openFigs, nfigs>>
            /\ nplots' = 0 /\ nrows' = 0 /\ ncols' = TrueDiv(0, 1)
            /\ st_data_plot' = <<>>
       ELSE /\ dirExists' = TRUE
            /\ nfigs' = nfigs + 1
            /\ fig' = nfigs + 1
            /\ openFigs' = openFigs \cup {nfigs + 1}
            /\ nplots' = Len(c.st_data)
            /\ nrows' = Nrows(Len(c.st_data))
            /\ ncols' = Ncols(Len(c.st_data), Nrows(Len(c.st_data)))
            /\ st_data_plot' = SortByAzi(c.st_data)
            /\ outcome' = "running"
            /\ pc' = "loop"

\* Lines 53-109: one pass of the loop body
LoopBody ==
    /\ pc = "loop"
    /\ iplot < Len(st_data_plot)
    /\ LET tr == st_data_plot[iplot + 1]
           stage == Raises(tr, call)
       IN  /\ lines' = lines \o BodyLines(tr, call, Irow(iplot, nrows),
                                          Icol(iplot, nrows), stage)
           /\ IF stage = 0
              THEN /\ iplot' = iplot + 1
                   /\ UNCHANGED <<pc, outcome, errkey>>
              ELSE /\ outcome' = Exception(stage)
                   /\ errkey' = IF Exception(stage) = "KeyError"
                                THEN Code(tr) ELSE ""
                   /\ pc' = "done"
                   /\ iplot' = iplot
    /\ UNCHANGED <<call, fig, nplots, nrows, ncols, st_data_plot, title,
                   stf_xoffset, map, dirExists, files, openFigs, nfigs, ncalls>>

\* the figures pyplot holds after plt.close(fig)
Closed(figs, f) == figs \ {f}

\* Lines 111-154: legend, title, insets, map, savefig, close
AfterLoop ==
    /\ pc = "loop"
    /\ iplot = Len(st_data_plot)
    /\ pc' = "done"
    /\ IF nplots = 0
       THEN \* l_s, l_d, l_g were never assigned
            /\ outcome' = "UnboundLocalError"
            /\ UNCHANGED <<title, stf_xoffset, map, files, openFigs, errkey>>
       ELSE LET m == PlotMap(call.st_synth, call.CC, 0, 0, call.CClim)
                tr == st_data_plot[Len(st_data_plot)]
            IN  /\ title' = (call.iteration >= 0)
                /\ stf_xoffset' = MulInt(DictMean(call.dT).value, tr.delta)
                /\ map' = m
                /\ UNCHANGED errkey
                /\ IF m.outcome # "ok"
                   THEN /\ outcome' = m.outcome
                        /\ UNCHANGED <<files, openFigs>>
                   ELSE /\ files' = Saved(files, call)
                        /\ IF call.writable
                           THEN /\ outcome' = "ok"
                                /\ openFigs' = Closed(openFigs, fig)
                           ELSE /\ outcome' = "IOError"
                                /\ UNCHANGED openFigs
    /\ UNCHANGED <<call, fig, nplots, nrows, ncols, iplot, st_data_plot, lines,
                   dirExists, nfigs, ncalls>>

\* The caller goes on: the locals of the call are gone
Return ==
    /\ pc = "done"
    /\ pc' = "idle"
    /\ call' = NoCall
    /\ fig' = 0
    /\ nplots' = 0 /\ nrows' = 0 /\ ncols' = TrueDiv(0, 1) /\ iplot' = 0
    /\ st_data_plot' = <<>>
    /\ lines' = <<>>
    /\ title' = FALSE
    /\ stf_xoffset' = TrueDiv(0, 1)
    /\ map' = NoMap
    /\ outcome' = "none"
    /\ errkey' = ""
    /\ UNCHANGED <<dirExists, files, openFigs, nfigs, ncalls>>

MissChoices(n) == {<<"none", 0>>} \cup (Metrics \X (1..n))

WfInit ==
    /\ pc = "idle"
    /\ call = NoCall
    /\ fig = 0
    /\ nplots = 0 /\ nrows = 0 /\ ncols = TrueDiv(0, 1) /\ iplot = 0
    /\ st_data_plot = <<>>
    /\ lines = <<>>
    /\ title = FALSE
    /\ stf_xoffset = TrueDiv(0, 1)
    /\ map = NoMap
    /\ outcome = "none"
    /\ errkey = ""
    /\ dirExists \in BOOLEAN
    /\ files = {}
    /\ openFigs = {}
    /\ nfigs = 0
    /\ ncalls = 0

MeanIdle == dictionary = <<>> /\ mean = [outcome |-> "none", value |-> TrueDiv(0, 1)]

SynthIdle == traces = [data |-> <<1>>, green |-> <<>>, stf |-> <<>>] /\ synth = [outcome |-> "none", yvals |-> <<>>]

OrthoIdle == ortho_args = [lats |-> <<>>, lons |-> <<>>, colors |-> <<>>, CClim |-> 0, text |-> <<>>] /\ ortho = NoMap

\* A call of plot_waveforms, with any of the arguments of the model
PlotWaveforms ==
    /\ pc = "idle"
    /\ ncalls < MaxCalls
    /\ \E n \in 0..MaxTraces, CClim \in CClimValues, iteration \in Iterations,
          writable \in BOOLEAN :
          \E cc \in [1..n -> CCValues], miss \in MissChoices(n) :
             Call(Arguments(n, cc, CClim, miss, iteration, writable))

WfIdle == WfInit /\ dirExists

Init == WfInit /\ MeanIdle /\ SynthIdle /\ OrthoIdle

Next ==
    \/ PlotWaveforms /\ UNCHANGED <<mean_vars, synth_vars, ortho_vars>>
    \/ LoopBody /\ UNCHANGED <<mean_vars, synth_vars, ortho_vars>>
    \/ AfterLoop /\ UNCHANGED <<mean_vars, synth_vars, ortho_vars>>
    \/ Return /\ UNCHANGED <<mean_vars, synth_vars, ortho_vars>>

Spec == Init /\ [][Next]_vars

\* ------------------------------------------------------------ _dict_mean
Keys == {"a", "b", "c", "d"}

RECURSIVE SeqsOver(_, _)
SeqsOver(S, n) ==
    IF n = 0 THEN {<<>>}
    ELSE LET shorter == SeqsOver(S, n - 1)
         IN  shorter \cup {Append(s, x) : s \in {t \in shorter : Len(t) = n - 1}, x \in S}

\* dicts of at most n items: the keys of a dict are distinct
Dicts(n) ==
    {d \in SeqsOver(Keys \X {0, 1, 3}, n) :
        \A i, j \in 1..Len(d) : i # j => d[i][1] # d[j][1]}

MeanInit ==
    /\ dictionary \in Dicts(MaxDict)
    /\ mean = [outcome |-> "none", value |-> TrueDiv(0, 1)]

CallDictMean ==
    /\ mean.outcome = "none"
    /\ mean' = DictMean(dictionary)
    /\ UNCHANGED <<dictionary, wf_vars, synth_vars, ortho_vars>>

InitMean == WfIdle /\ MeanInit /\ SynthIdle /\ OrthoIdle

SpecMean == InitMean /\ [][CallDictMean]_vars

\* ------------------------------------------------------------ synthetic curve
SynthInit ==
    /\ traces \in [data : SeqsOver({0, -2}, MaxLen),
                   green : SeqsOver({1, 2}, MaxLen),
                   stf : SeqsOver({1, -1}, MaxLen)]
    /\ synth = [outcome |-> "none", yvals |-> <<>>]

DrawSynthetic ==
    /\ synth.outcome = "none"
    /\ synth' = SynthCurve(traces.data, traces.green, traces.stf)
    /\ UNCHANGED <<traces, wf_vars, mean_vars, ortho_vars>>

InitSynth == WfIdle /\ MeanIdle /\ SynthInit /\ OrthoIdle

SpecSynth == InitSynth /\ [][DrawSynthetic]_vars

\* ------------------------------------------------------------ add_ortho
\* stations on the equator, near the center (lon 0) or behind the globe
Stations == [lat : {0}, lon : {0, 180}, color : {0, 1, 2}]

OrthoArgs(st, CClim, labelled) ==
    [lats |-> [k \in 1..Len(st) |-> st[k].lat],
     lons |-> [k \in 1..Len(st) |-> st[k].lon],
     colors |-> [k \in 1..Len(st) |-> st[k].color],
     CClim |-> CClim,
     text |-> IF labelled THEN [k \in 1..Len(st) |-> StationName(k)] ELSE <<>>]

OrthoInit ==
    /\ ortho_args \in {OrthoArgs(st, 1, labelled) :
                          st \in SeqsOver(Stations, MaxStations),
                          labelled \in BOOLEAN}
    /\ ortho = NoMap

CallAddOrtho ==
    /\ ortho.outcome = "none"
    /\ ortho' = AddOrtho(ortho_args.lats, ortho_args.lons, ortho_args.colors,
                         ortho_args.CClim, 0, 0, ortho_args.text)
    /\ UNCHANGED <<ortho_args, wf_vars, mean_vars, synth_vars>>

InitOrtho == WfIdle /\ MeanIdle /\ SynthIdle /\ OrthoInit

SpecOrtho == InitOrtho /\ [][CallAddOrtho]_vars

\* ============================================================ claims

\* plot_waveforms got past os.mkdir and sized its grid
Sized == pc \in {"loop", "done"} /\ outcome # "OSError"

\* C1 as stated: for every non-empty station set of size n the grid is
\* rows = floor(sqrt(n)) + 1 and an integer columns = ceil(n / rows) + 1.
C1_GridCeilColumns ==
    (Sized /\ Len(call.st_data) >= 1) =>
        LET n == Len(call.st_data)
        IN  /\ (nrows - 1) * (nrows - 1) <= n /\ n < nrows * nrows
            /\ ncols.den = 1
            /\ (ncols.num - 1) * nrows >= n
            /\ (ncols.num - 2) * nrows < n

\* C1 amended: rows = floor(sqrt(n)) + 1, and columns is the true quotient
\* n / rows plus one (no rounding up), whose integer part is
\* floor(n / rows) + 1.
C1_GridTrueDivision ==
    (Sized /\ Len(call.st_data) >= 1) =>
        LET n == Len(call.st_data)
        IN  /\ nplots = n
            /\ (nrows - 1) * (nrows - 1) <= n /\ n < nrows * nrows
            /\ ncols.den > 0
            /\ ncols.num * nrows = (n + nrows) * ncols.den
            /\ ncols.num \div ncols.den = n \div nrows + 1

\* C1 witness: four stations give 3 rows and 7/3 columns.
C1_FourStations ==
    /\ pc = "done" /\ outcome = "ok"
    /\ Len(call.st_data) = 4 /\ nrows = 3 /\ ncols = [num |-> 7, den |-> 3]

\* the items of the three lists of a marker group
Triples(lats, lons, colors) ==
    [k \in 1..Len(colors) |-> <<lats[k], lons[k], colors[k]>>]

Count(seq, x) == Cardinality({k \in 1..Len(seq) : seq[k] = x})

\* C2: add_ortho puts every input station in exactly one marker group,
\* group A iff its value > CClim and group B otherwise (also at
\* value = CClim); the groups hold every station once, none twice and none
\* left out, each with its own lat/lon/value.
C2_GroupsPartitionStations ==
    ortho.outcome # "none" =>
        LET a == ortho_args
            m == ortho.marks
            input == Triples(a.lats, a.lons, a.colors)
        IN  /\ Len(m.lats_mark1) = Len(m.colors_mark1)
            /\ Len(m.lons_mark1) = Len(m.colors_mark1)
            /\ Len(m.lats_mark2) = Len(m.colors_mark2)
            /\ Len(m.lons_mark2) = Len(m.colors_mark2)
            /\ Len(m.colors_mark1) + Len(m.colors_mark2) = Len(input)
            /\ \A k \in 1..Len(input) :
                  LET inA == Count(Triples(m.lats_mark1, m.lons_mark1,
                                           m.colors_mark1), input[k])
                      inB == Count(Triples(m.lats_mark2, m.lons_mark2,
                                           m.colors_mark2), input[k])
                  IN  IF a.colors[k] > a.CClim
                      THEN inA = Count(input, input[k]) /\ inB = 0
                      ELSE inB = Count(input, input[k]) /\ inA = 0

\* C2 witness: a map with a station above the threshold in group A and a
\* station exactly at the threshold in group B.
C2_BothGroups ==
    /\ ortho.outcome = "ok"
    /\ Len(ortho.marks.colors_mark1) >= 1
    /\ \E k \in 1..Len(ortho.marks.colors_mark2) :
          ortho.marks.colors_mark2[k] = ortho_args.CClim

\* C3: every curve drawn for a station (data, Green's function, synthetic)
\* is solid iff CC[code] > CClim and dotted otherwise, whatever the other
\* arguments, the grid cell and the iteration are.
C3_StyleFromCC ==
    \A k \in 1..Len(lines) :
        /\ lines[k].role \in {"data", "green", "synth"}
        /\ \E j \in 1..Len(call.CC) :
              /\ call.CC[j][1] = lines[k].code
              /\ lines[k].ls = IF call.CC[j][2] > call.CClim THEN "-" ELSE "dotted"

\* C3 witness: a finished figure with the three curves of a station solid
\* and those of a station with CC = CClim dotted.
C3_SolidAndDotted ==
    /\ pc = "done" /\ outcome = "ok"
    /\ \E c1, c2 \in {lines[k].code : k \in 1..Len(lines)} :
          /\ \A r \in {"data", "green", "synth"} :
                /\ \E k \in 1..Len(lines) :
                      lines[k].code = c1 /\ lines[k].role = r /\ lines[k].ls = "-"
                /\ \E k \in 1..Len(lines) :
                      lines[k].code = c2 /\ lines[k].role = r /\ lines[k].ls = "dotted"
          /\ \E j \in 1..Len(call.CC) :
                call.CC[j][1] = c2 /\ call.CC[j][2] = call.CClim

\* C4: a plot_waveforms call with no stations ends in EmptyInputError.
C4_EmptyInputError ==
    (pc = "done" /\ call.st_data = <<>> /\ outcome # "OSError") =>
        outcome = "EmptyInputError"

\* the stations of st_data without an entry in some metric or without a
\* synthetic trace
Lacking(c) ==
    {k \in 1..Len(c.st_data) : Raises(c.st_data[k], c) \in {1, 2, 4, 5, 6}}

\* C5: when a station of the data traces has no entry in CC, dA, dT or the
\* arrival times, or no synthetic trace, plot_waveforms fails with
\* MissingStationDataError carrying that station's "station.location" code.
C5_MissingStationDataError ==
    (pc = "done" /\ outcome # "OSError" /\ Lacking(call) # {}) =>
        /\ outcome = "MissingStationDataError"
        /\ errkey \in {Code(call.st_data[k]) : k \in Lacking(call)}

\* C6: _dict_mean fails with EmptyInputError on an empty mapping and
\* returns the unweighted mean of the values of a non-empty one.
C6_MeanOrEmptyInputError ==
    mean.outcome # "none" =>
        IF dictionary = <<>>
        THEN mean.outcome = "EmptyInputError"
        ELSE /\ mean.outcome = "ok"
             /\ mean.value.den > 0
             /\ mean.value.num * Len(dictionary)
                    = SumSeq(Values(dictionary)) * mean.value.den

\* C7: whenever plot_waveforms is not running, after any sequence of calls,
\* successful or failed, no figure a call created is still open.
C7_NoFigureLeftOpen == pc \in {"idle", "done"} => openFigs = {}

\* the image file a call with this iteration writes
C8_Image(iteration) ==
    "./waveforms/waveforms_it_" \o ToString(iteration) \o ".png"

\* C8 as stated, for the calls that return normally or end in the IOError
\* of a failed write: after the call, waveforms_it_<iteration>.png exists
\* in the output directory iff the call completed successfully.
C8_FileIffSuccess ==
    (pc = "done" /\ outcome \in {"ok", "IOError"}) =>
        ((C8_Image(call.iteration) \in files) <=> (outcome = "ok"))

\* C8 amended: a call that ends in an error leaves the files of the output
\* directory as they were (an image of an earlier call stays), a call that
\* succeeds adds or overwrites exactly waveforms_it_<iteration>.png, no
\* other step touches the files; the directory is created only when absent,
\* and a directory that exists never makes the call fail in os.mkdir.
C8_FilesChangeOnlyOnSuccess ==
    [][ /\ IF pc = "loop" /\ pc' = "done" /\ outcome' = "ok"
           THEN files' = files \cup {C8_Image(call.iteration)}
           ELSE files' = files
        /\ dirExists => dirExists'
        /\ (dirExists /\ pc = "idle" /\ pc' # "idle") => outcome' # "OSError"
        /\ (outcome' = "ok" /\ pc' = "done") => dirExists'
      ]_vars

\* C8 witness: a second call, with iteration -1, has failed and the only
\* file is the image the first call wrote for iteration 0.
C8_FailedCallWroteNothing ==
    /\ pc = "done" /\ outcome \notin {"ok", "running", "none"}
    /\ ncalls = 2 /\ call.iteration = -1
    /\ files = {"./waveforms/waveforms_it_0.png"}

\* sample k of the full convolution of green and stf
C9_FullConvolution(green, stf, k) ==
    SumSeq([j \in 1..Len(stf) |->
               IF k - j + 1 >= 1 /\ k - j + 1 <= Len(green)
               THEN stf[j] * green[k - j + 1] ELSE 0])

\* q is the IEEE quotient a / b
C9_IsQuotient(q, a, b) ==
    IF b = 0 THEN q.den = 0 /\ q.num = Sign(a)
    ELSE q.den > 0 /\ q.num * b = a * q.den

\* C9 as stated: the synthetic curve has exactly N samples, N the sample
\* count of the data trace, for every Green's-function and STF length, and
\* sample k is the full convolution at k over max(abs(data)).
C9_ExactlyNSamples ==
    synth.outcome = "ok" =>
        /\ Len(synth.yvals) = Len(traces.data)
        /\ \A k \in 1..Len(synth.yvals) :
              C9_IsQuotient(synth.yvals[k],
                            C9_FullConvolution(traces.green, traces.stf, k),
                            Normfac(traces.data))

\* C9 amended: the synthetic curve has min(N, Lg + Ls - 1) samples (N only
\* when the full convolution is at least as long as the data trace), each
\* the full convolution at its index over max(abs(data)); with an empty
\* data trace, Green's function or STF the call raises ValueError.
C9_AtMostNSamples ==
    /\ synth.outcome = "ok" =>
          /\ traces.data # <<>> /\ traces.green # <<>> /\ traces.stf # <<>>
          /\ Len(synth.yvals)
                = Min(Len(traces.data), Len(traces.green) + Len(traces.stf) - 1)
          /\ \A k \in 1..Len(synth.yvals) :
                C9_IsQuotient(synth.yvals[k],
                              C9_FullConvolution(traces.green, traces.stf, k),
                              MaxSeq([i \in 1..Len(traces.data) |->
                                         Abs(traces.data[i])]))
    /\ synth.outcome = "ValueError" =>
          (traces.data = <<>> \/ traces.green = <<>> \/ traces.stf = <<>>)

\* C9 witness: a convolution shorter than the data trace, drawn with fewer
\* samples than the data trace has.
C9_ShortSynthetic ==
    /\ synth.outcome = "ok"
    /\ Len(synth.yvals) < Len(traces.data)
    /\ Len(synth.yvals) = Len(traces.green) + Len(traces.stf) - 1

\* the place of a draw step in the order of the map
C10_Rank(step) ==
    CASE step = "stock_img" -> 1
      [] step = "coastlines" -> 2
      [] step = "gridlines" -> 3
      [] step = "scatter_A" -> 4
      [] step = "scatter_B" -> 5
      [] step = "colorbar" -> 6
      [] step = "star" -> 7
      [] step = "text" -> 8

C10_Has(step) == \E k \in 1..Len(ortho.drawn) : ortho.drawn[k].step = step

\* backdrop, coastlines/gridlines, group A, group B, colorbar, center star,
\* labels: in this order, a group's step present iff the group has a
\* station, the colorbar only after a marker layer
C10_Order ==
    /\ Len(ortho.drawn) >= 3
    /\ \A k \in 1..3 : C10_Rank(ortho.drawn[k].step) = k
    /\ \A i, j \in 1..Len(ortho.drawn) :
          i < j => \/ C10_Rank(ortho.drawn[i].step) < C10_Rank(ortho.drawn[j].step)
                   \/ ortho.drawn[i].step = "text" /\ ortho.drawn[j].step = "text"
    /\ C10_Has("scatter_A") <=>
          \E k \in 1..Len(ortho_args.colors) : ortho_args.colors[k] > ortho_args.CClim
    /\ C10_Has("scatter_B") <=>
          \E k \in 1..Len(ortho_args.colors) : ortho_args.colors[k] <= ortho_args.CClim
    /\ C10_Has("colorbar") <=> (C10_Has("scatter_A") \/ C10_Has("scatter_B"))
    /\ C10_Has("star") <=> C10_Has("colorbar")
    /\ C10_Has("text") => (ortho_args.text # <<>> /\ C10_Has("star"))

C10_Explicit(steps) ==
    \A k \in 1..Len(ortho.drawn) :
        ortho.drawn[k].step \in steps =>
            ortho.drawn[k].explicit /\ ortho.drawn[k].zorder > 0

\* C10 as stated: the draw steps of add_ortho come in the fixed order, and
\* every marker layer (group A, group B, center star) and text layer is
\* given an explicit z-order above the backdrop.
C10_OrderAllMarkersExplicit ==
    ortho.outcome # "none" =>
        C10_Order /\ C10_Explicit({"scatter_A", "scatter_B", "star", "text"})

\* C10 amended: the draw steps come in the fixed order, an empty group's
\* step is skipped, the colorbar follows a marker layer; the group-A and
\* group-B markers (z-order 10) and the labels (z-order 100) are given an
\* explicit z-order, the center star is drawn without one.
C10_OrderGroupsExplicit ==
    ortho.outcome # "none" =>
        /\ C10_Order
        /\ C10_Explicit({"scatter_A", "scatter_B", "text"})
        /\ \A k \in 1..Len(ortho.drawn) :
              ortho.drawn[k].step = "star" => ~ortho.drawn[k].explicit

\* C10 witness: a map with both marker groups, the colorbar, the star and
\* a label.
C10_FullMap ==
    /\ ortho.outcome = "ok"
    /\ \A step \in {"scatter_A", "scatter_B", "colorbar", "star", "text"} :
          C10_Has(step)

====
